---- MODULE Spec2Model ----
(***************************************************************************)
(* Conversation synchronisation and decrypt authorisation of the DNA       *)
(* Messenger Qt client (src/gui/MainWindow.cpp): the new-message poller,   *)
(* the status poller, the conversation loaders and the target selection,   *)
(* over a message store shared with the other clients.                     *)
(***************************************************************************)
EXTENDS Integers, Sequences, FiniteSets, TLC

(***************************************************************************)
(* Bounds of the model.                                                    *)
(***************************************************************************)
\* Last value the store's id sequence handed out before the session.
SeqStart == 8
\* Largest id the store's sequence hands out.
MaxId == 10
\* Largest number of rows inserted by transactions that have not committed.
MaxInflight == 1
\* Cap of the per-message processing counter.
MaxCount == 2
\* Largest number of clicks on the items of the add-recipients dialog.
MaxClicks == 2
\* Largest number of blocks of the display to which a send still appends.
MaxDisplay == 2

(***************************************************************************)
(* Values.                                                                 *)
(***************************************************************************)
\* The local identity: fixed once the constructor has run.
currentIdentity == "alice"

Identities == {"alice", "bob", "carol"}

\* ContactType of MainWindow.h.
TYPE_CONTACT == "TYPE_CONTACT"
TYPE_GROUP == "TYPE_GROUP"

\* currentGroupId of a window with no group open; group_id of a direct row.
NoGroup == -1

\* The group directory: one group.
Groups == {[id |-> 1, name |-> "team"]}

\* A NULL status column (messages[i].status is a null pointer).
NULL == "NULL"

\* created_at values, "YYYY-MM-DD HH:MM:SS", one character per element.
TsMorning ==
    <<"2","0","2","5","-","1","0","-","1","4"," ","0","9",":","0","5",":","3","3">>

TsNight ==
    <<"2","0","2","5","-","1","0","-","1","3"," ","2","3",":","5","9",":","0","1">>

\* Plaintexts, in chunks: a chunk is one HTML-special character or a run of
\* characters with none.
PlainHi == <<"hi">>

PlainHeart == <<"I ", "<", "3 you">>

\* messenger_decrypt_message returns nonzero for a row with this plaintext.
NoPlain == <<>>

\* What a read through a dangling pointer finds when the freed bytes were
\* overwritten: no identity of the store.
Garbage == "\\xDD\\xDD"

Themes == {"io", "club"}

VARIABLES
    store,                 \* committed rows of the messages table (a set)
    inflight,              \* rows inserted by transactions not yet committed
    seq,                   \* last value of the id sequence
    lastCheckedMessageId,  \* MainWindow::lastCheckedMessageId
    currentContact,        \* MainWindow::currentContact ("" when none)
    currentGroupId,        \* MainWindow::currentGroupId
    currentContactType,    \* MainWindow::currentContactType
    additionalRecipients,  \* MainWindow::additionalRecipients
    currentTheme,          \* MainWindow::currentTheme
    messageInput,          \* text of the messageInput line edit, by character
    dialog,                \* the add-recipients dialog while its exec() runs
    messageDisplay,        \* blocks of the messageDisplay widget, in order
    handler,               \* the handler that ran last ("store": a step of the store)
    calls,                 \* collaborator and widget calls of that handler
    processed,             \* id -> times the poller processed the message
    maxReturned            \* largest id any poll query returned so far

vars == <<store, inflight, seq, lastCheckedMessageId, currentContact,
          currentGroupId, currentContactType, additionalRecipients,
          currentTheme, messageInput, dialog, messageDisplay, handler, calls,
          processed, maxReturned>>

\* The window's own state.
window == <<lastCheckedMessageId, currentContact, currentGroupId,
            currentContactType, additionalRecipients, currentTheme,
            messageInput, dialog, messageDisplay, processed, maxReturned>>

\* A step of the store: no handler of the window runs.
StoreStep == handler' = "store" /\ calls' = <<>> /\ UNCHANGED window

(***************************************************************************)
(* Strings and numbers.                                                    *)
(***************************************************************************)
Digits == <<"0", "1", "2", "3", "4", "5", "6", "7", "8", "9">>

RECURSIVE IntToStr(_)
\* snprintf(id_str, ..., "%d", n) for n >= 0: the decimal digits of n.
IntToStr(n) ==
    IF n < 10 THEN <<Digits[n + 1]>>
    ELSE IntToStr(n \div 10) \o <<Digits[(n % 10) + 1]>>

DigitValue(c) == CHOOSE d \in 0..9 : Digits[d + 1] = c

RECURSIVE atoiFrom(_, _, _)
atoiFrom(s, i, acc) ==
    IF i > Len(s) \/ s[i] \notin {Digits[d] : d \in 1..10} THEN acc
    ELSE atoiFrom(s, i + 1, acc * 10 + DigitValue(s[i]))

\* atoi: the value of the leading decimal digits, 0 when there is none.
atoi(s) == atoiFrom(s, 1, 0)

\* QString::mid(pos, n): the n characters from the 0-based position pos,
\* fewer when the string ends before, none when pos is past the end.
mid(s, pos, n) ==
    IF pos >= Len(s) THEN <<>>
    ELSE SubSeq(s, pos + 1, IF pos + n > Len(s) THEN Len(s) ELSE pos + n)

\* QString::toHtmlEscaped on one chunk.
EscapeChunk(c) ==
    CASE c = "<" -> "&lt;"
      [] c = ">" -> "&gt;"
      [] c = "&" -> "&amp;"
      [] c = "\"" -> "&quot;"
      [] OTHER -> c

toHtmlEscaped(text) == [i \in 1..Len(text) |-> EscapeChunk(text[i])]

MaxOf(numbers) == CHOOSE n \in numbers : \A k \in numbers : k <= n

(***************************************************************************)
(* The message store and the messenger core (external collaborators).      *)
(***************************************************************************)
RECURSIVE SortById(_)
\* ORDER BY id ASC over a set of rows.
SortById(rows) ==
    IF rows = {} THEN <<>>
    ELSE LET first == CHOOSE r \in rows : \A q \in rows : r.id <= q.id
         IN <<first>> \o SortById(rows \ {first})

\* messenger_get_conversation: the direct rows exchanged with the contact,
\* oldest first.
messenger_get_conversation(st, contact) ==
    SortById({m \in st : m.group_id = NoGroup
                         /\ (m.sender = contact \/ m.recipient = contact)})

\* messenger_get_group_conversation: the rows of the group, oldest first.
messenger_get_group_conversation(st, groupId) ==
    SortById({m \in st : m.group_id = groupId})

\* messenger_mark_delivered: a sent message becomes delivered.
messenger_mark_delivered(st, msgId) ==
    {IF m.id = msgId /\ m.status = "sent" THEN [m EXCEPT !.status = "delivered"]
     ELSE m : m \in st}

\* messenger_mark_conversation_read: what the contact sent to the local
\* identity becomes read.
messenger_mark_conversation_read(st, contact) ==
    {IF m.sender = contact /\ m.recipient = currentIdentity /\ m.group_id = NoGroup
     THEN [m EXCEPT !.status = "read"] ELSE m : m \in st}

\* messenger_decrypt_message returns 0.
DecryptOk(m) == m.plain # NoPlain

(***************************************************************************)
(* Blocks of the message display.                                          *)
(***************************************************************************)
ConversationHeader(contact) == [block |-> "header", title |-> <<"Conversation with", contact>>]

GroupHeader(name) == [block |-> "header", title |-> <<"Group:", name>>]

GenericGroupHeader == [block |-> "header", title |-> <<"Group Conversation">>]

NoMessagesYet == [block |-> "empty"]

FailedToLoad(what) == [block |-> "error", text |-> what]

Encrypted == <<"[encrypted]">>

DecryptionFailed == <<"[decryption failed]">>

\* The sent bubble of lines 769-794: orange in the club theme, cyan otherwise.
SentBubble(theme, timeOnly, checkmark, text) ==
    [block |-> "sent", color |-> IF theme = "club" THEN "#FF8C42" ELSE "#00D9FF",
     time |-> timeOnly, check |-> checkmark, text |-> toHtmlEscaped(text)]

\* The received bubble of lines 798-823.
ReceivedBubble(theme, sender, timeOnly, text) ==
    [block |-> "received", color |-> IF theme = "club" THEN "#2B1F16" ELSE "#0D3438",
     who |-> sender, time |-> timeOnly, text |-> toHtmlEscaped(text)]

(***************************************************************************)
(* loadConversation.                                                       *)
(***************************************************************************)
\* canAttemptDecrypt with no test at all, as in the group loader.
canAttemptDecryptAlways(recipient, sender) == TRUE

\* canAttemptDecrypt without the clause for the messages the user sent.
canAttemptDecryptReceivedOnly(recipient, sender) == recipient = currentIdentity

\* Line 736: whether loadConversation asks the core to decrypt the row.
canAttemptDecrypt(recipient, sender) ==
    recipient = currentIdentity \/ sender = currentIdentity

\* Lines 735-746.
ContactMessageText(m) ==
    IF canAttemptDecrypt(m.recipient, m.sender)
    THEN IF DecryptOk(m) THEN m.plain ELSE DecryptionFailed
    ELSE Encrypted

\* Line 751: a null status reads as "sent".
StatusOrSent(status) == IF status = NULL THEN "sent" ELSE status

\* statusCheckmark with the coloured double mark as the default branch.
statusCheckmarkReadByDefault(status, theme) ==
    IF status = "sent"
    THEN [marks |-> 1, color |-> "#888888"]
    ELSE IF status = "delivered"
         THEN [marks |-> 2, color |-> "#888888"]
         ELSE [marks |-> 2, color |-> IF theme = "club" THEN "#FF8C42" ELSE "#00D9FF"]

\* Lines 753-766: the checkmark of a sent bubble.
statusCheckmark(status, theme) ==
    IF status = "read"
    THEN [marks |-> 2, color |-> IF theme = "club" THEN "#FF8C42" ELSE "#00D9FF"]
    ELSE IF status = "delivered"
         THEN [marks |-> 2, color |-> "#888888"]
         ELSE [marks |-> 1, color |-> "#888888"]

\* Line 748: the row shows as a sent bubble.
IsOwn(sender) == sender = currentIdentity

\* ContactBubble reading the status only of a row it could decrypt.
ContactBubbleStatusIfDecrypted(m, theme) ==
    LET timeOnly == mid(m.created_at, 11, 5)
        messageText == ContactMessageText(m)
    IN IF m.sender = currentIdentity
       THEN SentBubble(theme, timeOnly,
                       statusCheckmark(IF DecryptOk(m) THEN StatusOrSent(m.status)
                                       ELSE "sent", theme),
                       messageText)
       ELSE ReceivedBubble(theme, m.sender, timeOnly, messageText)

\* Lines 725-825: the bubble of one row of a direct conversation.
ContactBubble(m, theme) ==
    LET timeOnly == mid(m.created_at, 11, 5)
        messageText == ContactMessageText(m)
    IN IF IsOwn(m.sender)
       THEN SentBubble(theme, timeOnly,
                       statusCheckmark(StatusOrSent(m.status), theme), messageText)
       ELSE ReceivedBubble(theme, m.sender, timeOnly, messageText)

DecryptCall(m) == [call |-> "messenger_decrypt_message", id |-> m.id]

\* The decrypt calls of the loop of lines 724-826, in order.
ContactDecryptCalls(msgs) ==
    LET asked == SelectSeq(msgs, LAMBDA m : canAttemptDecrypt(m.recipient, m.sender))
    IN [i \in 1..Len(asked) |-> DecryptCall(asked[i])]

\* ConversationBody showing a failed read as a conversation with no message.
ConversationBodyFailureAsEmpty(ok, msgs, theme) ==
    IF ok /\ Len(msgs) > 0
    THEN [i \in 1..Len(msgs) |-> [block |-> "received", who |-> msgs[i].sender]]
    ELSE <<[block |-> "empty"]>>

\* Lines 716-838: what follows the header, by the result of the read.
ConversationBody(ok, msgs, theme) ==
    IF ok
    THEN IF Len(msgs) = 0 THEN <<NoMessagesYet>>
         ELSE [i \in 1..Len(msgs) |-> ContactBubble(msgs[i], theme)]
    ELSE <<FailedToLoad("Failed to load conversation")>>

\* loadConversation(contact) on store st, the read succeeding or not: the new
\* display and the calls made.
loadConversation(contact, st, theme, ok) ==
    IF contact = "" THEN [display |-> <<>>, calls |-> <<>>]
    ELSE LET msgs == IF ok THEN messenger_get_conversation(st, contact) ELSE <<>>
         IN [display |-> <<ConversationHeader(contact)>> \o ConversationBody(ok, msgs, theme),
             calls |-> <<[call |-> "messenger_get_conversation", contact |-> contact,
                          ok |-> ok, rows |-> msgs]>>
                       \o ContactDecryptCalls(msgs)]

(***************************************************************************)
(* loadGroupConversation.                                                  *)
(***************************************************************************)
\* Lines 898-907: every row of a group is handed to the core.
GroupMessageText(m) == IF DecryptOk(m) THEN m.plain ELSE DecryptionFailed

\* Line 911: the fixed checkmark of a sent bubble of a group.
GroupCheckmark == [marks |-> 1, color |-> "#888888"]

\* GroupBubble with the checkmark of the row's status, as in a direct
\* conversation.
GroupBubbleWithStatus(m, theme) ==
    LET timeOnly == mid(m.created_at, 11, 5)
        messageText == GroupMessageText(m)
    IN IF IsOwn(m.sender)
       THEN SentBubble(theme, timeOnly,
                       statusCheckmark(StatusOrSent(m.status), theme), messageText)
       ELSE ReceivedBubble(theme, m.sender, timeOnly, messageText)

\* Lines 891-965: the bubble of one row of a group conversation.
GroupBubble(m, theme) ==
    LET timeOnly == mid(m.created_at, 11, 5)
        messageText == GroupMessageText(m)
    IN IF IsOwn(m.sender)
       THEN SentBubble(theme, timeOnly, GroupCheckmark, messageText)
       ELSE ReceivedBubble(theme, m.sender, timeOnly, messageText)

\* GroupBody leaving out the rows the core could not decrypt.
GroupBodyWithoutFailed(ok, msgs, theme) ==
    IF ok
    THEN LET kept == SelectSeq(msgs, DecryptOk)
         IN IF Len(kept) = 0 THEN <<NoMessagesYet>>
            ELSE [i \in 1..Len(kept) |-> GroupBubble(kept[i], theme)]
    ELSE <<FailedToLoad("Failed to load group conversation")>>

\* Lines 882-978.
GroupBody(ok, msgs, theme) ==
    IF ok
    THEN IF Len(msgs) = 0 THEN <<NoMessagesYet>>
         ELSE [i \in 1..Len(msgs) |-> GroupBubble(msgs[i], theme)]
    ELSE <<FailedToLoad("Failed to load group conversation")>>

GroupName(groupId) == (CHOOSE g \in Groups : g.id = groupId).name

\* loadGroupConversation returning after the header when the group's info
\* could not be read.
loadGroupConversationNeedingInfo(groupId, st, theme, infoOk, ok) ==
    IF groupId < 0 THEN [display |-> <<>>, calls |-> <<>>]
    ELSE LET msgs == IF ok THEN messenger_get_group_conversation(st, groupId) ELSE <<>>
             infoCall == [call |-> "messenger_get_group_info", id |-> groupId,
                          ok |-> infoOk]
         IN IF infoOk
            THEN [display |-> <<GroupHeader(GroupName(groupId))>>
                              \o GroupBody(ok, msgs, theme),
                  calls |-> <<infoCall,
                              [call |-> "messenger_get_group_conversation",
                               id |-> groupId, ok |-> ok, rows |-> msgs]>>
                            \o [i \in 1..Len(msgs) |-> DecryptCall(msgs[i])]]
            ELSE [display |-> <<GenericGroupHeader>>, calls |-> <<infoCall>>]

\* loadGroupConversation(groupId): infoOk is the result of
\* messenger_get_group_info, ok that of messenger_get_group_conversation.
loadGroupConversation(groupId, st, theme, infoOk, ok) ==
    IF groupId < 0 THEN [display |-> <<>>, calls |-> <<>>]
    ELSE LET msgs == IF ok THEN messenger_get_group_conversation(st, groupId) ELSE <<>>
             header == IF infoOk THEN GroupHeader(GroupName(groupId))
                       ELSE GenericGroupHeader
         IN [display |-> <<header>> \o GroupBody(ok, msgs, theme),
             calls |-> <<[call |-> "messenger_get_group_info", id |-> groupId, ok |-> infoOk],
                         [call |-> "messenger_get_group_conversation", id |-> groupId,
                          ok |-> ok, rows |-> msgs]>>
                       \o [i \in 1..Len(msgs) |-> DecryptCall(msgs[i])]]

(***************************************************************************)
(* The contact list (loadContacts, run once by the constructor).           *)
(***************************************************************************)
\* messenger_get_contact_list: the identities of the key server, the local
\* one among them.
ContactList == <<"alice", "bob", "carol">>

ContactText(identity) == <<"(contact) ", identity>>

GroupText(name) == <<"(group) ", name>>

\* Lines 604-642: contactItems, keyed by the text of the list item.
contactItems ==
    [t \in {ContactText(ContactList[i]) : i \in 1..Len(ContactList)}
           \cup {GroupText(g.name) : g \in Groups} |->
        IF t[1] = "(contact) "
        THEN [type |-> TYPE_CONTACT, name |-> t[2], groupId |-> NoGroup]
        ELSE [type |-> TYPE_GROUP, name |-> t[2],
              groupId |-> (CHOOSE g \in Groups : g.name = t[2]).id]]

(***************************************************************************)
(* The store as the other clients change it.                               *)
(***************************************************************************)
\* Rows the clients write: direct rows to and from the local identity, a row
\* between two other identities, and rows of the group.
Shapes ==
    { [sender |-> "bob", recipient |-> "alice", created_at |-> TsMorning,
       status |-> "sent", group_id |-> NoGroup, plain |-> PlainHi],
      [sender |-> "carol", recipient |-> "alice", created_at |-> TsNight,
       status |-> "sent", group_id |-> NoGroup, plain |-> NoPlain],
      [sender |-> "alice", recipient |-> "bob", created_at |-> TsMorning,
       status |-> "sent", group_id |-> NoGroup, plain |-> PlainHeart],
      [sender |-> "bob", recipient |-> "carol", created_at |-> TsNight,
       status |-> "sent", group_id |-> NoGroup, plain |-> PlainHi] }

Row(shape, id) ==
    [id |-> id, sender |-> shape.sender, recipient |-> shape.recipient,
     created_at |-> shape.created_at, status |-> shape.status,
     group_id |-> shape.group_id, plain |-> shape.plain]

\* Rows as a client may also have left them: every status the column can
\* hold (none, the three of the protocol, one the window does not know),
\* plaintexts the core cannot recover, and rows of the group.
VariedShapes ==
    { [sender |-> "alice", recipient |-> "bob", created_at |-> TsMorning,
       status |-> NULL, group_id |-> NoGroup, plain |-> PlainHeart],
      [sender |-> "alice", recipient |-> "bob", created_at |-> TsNight,
       status |-> "sent", group_id |-> NoGroup, plain |-> NoPlain],
      [sender |-> "alice", recipient |-> "bob", created_at |-> TsMorning,
       status |-> "delivered", group_id |-> NoGroup, plain |-> PlainHi],
      [sender |-> "alice", recipient |-> "bob", created_at |-> TsNight,
       status |-> "read", group_id |-> NoGroup, plain |-> NoPlain],
      [sender |-> "alice", recipient |-> "bob", created_at |-> TsMorning,
       status |-> "read", group_id |-> NoGroup, plain |-> PlainHi],
      [sender |-> "alice", recipient |-> "bob", created_at |-> TsMorning,
       status |-> "failed", group_id |-> NoGroup, plain |-> PlainHi],
      [sender |-> "bob", recipient |-> "alice", created_at |-> TsNight,
       status |-> "delivered", group_id |-> NoGroup, plain |-> PlainHeart],
      [sender |-> "bob", recipient |-> "alice", created_at |-> TsMorning,
       status |-> "sent", group_id |-> NoGroup, plain |-> NoPlain],
      [sender |-> "carol", recipient |-> "bob", created_at |-> TsMorning,
       status |-> "read", group_id |-> NoGroup, plain |-> PlainHi],
      [sender |-> "alice", recipient |-> "bob", created_at |-> TsMorning,
       status |-> "read", group_id |-> 1, plain |-> PlainHi],
      [sender |-> "alice", recipient |-> "bob", created_at |-> TsNight,
       status |-> NULL, group_id |-> 1, plain |-> PlainHeart],
      [sender |-> "alice", recipient |-> "bob", created_at |-> TsNight,
       status |-> "sent", group_id |-> 1, plain |-> NoPlain],
      [sender |-> "alice", recipient |-> "bob", created_at |-> TsMorning,
       status |-> "delivered", group_id |-> 1, plain |-> PlainHi],
      [sender |-> "carol", recipient |-> "bob", created_at |-> TsNight,
       status |-> "delivered", group_id |-> 1, plain |-> PlainHeart],
      [sender |-> "bob", recipient |-> "alice", created_at |-> TsMorning,
       status |-> "sent", group_id |-> 1, plain |-> NoPlain] }

\* An INSERT in a transaction of its own: the row takes the next id and is
\* visible at once.
StoreInsertFrom(shapes) ==
    /\ seq < MaxId
    /\ \E shape \in shapes :
          /\ seq' = seq + 1
          /\ store' = store \cup {Row(shape, seq + 1)}
    /\ UNCHANGED inflight
    /\ StoreStep

StoreInsert == StoreInsertFrom(Shapes)

StoreInsertVaried == StoreInsertFrom(VariedShapes)

\* An INSERT in a transaction that stays open: the id is taken, the row is
\* not yet visible to the other connections.
StoreInsertBegin ==
    /\ seq < MaxId
    /\ Cardinality(inflight) < MaxInflight
    /\ \E shape \in Shapes :
          /\ seq' = seq + 1
          /\ inflight' = inflight \cup {Row(shape, seq + 1)}
    /\ UNCHANGED store
    /\ StoreStep

\* The open transaction commits: its row becomes visible.
StoreCommit ==
    /\ \E m \in inflight :
          /\ inflight' = inflight \ {m}
          /\ store' = store \cup {m}
    /\ UNCHANGED seq
    /\ StoreStep

\* The open transaction rolls back: its id is never used.
StoreRollback ==
    /\ \E m \in inflight : inflight' = inflight \ {m}
    /\ UNCHANGED <<store, seq>>
    /\ StoreStep

\* The client of another identity fetches (delivered) or opens (read) a row
\* addressed to it.
PeerMarks ==
    /\ \E m \in store, status \in {"delivered", "read"} :
          /\ m.recipient # currentIdentity
          /\ m.status # "read"
          /\ m.status # status
          /\ store' = (store \ {m}) \cup {[m EXCEPT !.status = status]}
    /\ UNCHANGED <<inflight, seq>>
    /\ StoreStep

(***************************************************************************)
(* onContactSelected, onRefreshMessages, applyTheme, onAddRecipients.      *)
(* While the add-recipients dialog runs its event loop the window takes no *)
(* input: the timers still fire.                                           *)
(***************************************************************************)
\* Line 666: the list is cleared, whatever it held.
ClearRecipients == [call |-> "additionalRecipients.clear", held |-> additionalRecipients]

\* SelectContact marking the conversation read after it has been loaded.
SelectContactMarkingAfter(item, ok) ==
    LET marked == messenger_mark_conversation_read(store, item.name)
        load == loadConversation(item.name, store, currentTheme, ok)
    IN /\ currentContact' = item.name
       /\ currentGroupId' = NoGroup
       /\ store' = marked
       /\ messageDisplay' = load.display
       /\ calls' = <<ClearRecipients>> \o load.calls
                   \o <<[call |-> "messenger_mark_conversation_read",
                         contact |-> item.name]>>

\* Lines 668-679: a contact item.
SelectContact(item, ok) ==
    LET marked == messenger_mark_conversation_read(store, item.name)
        load == loadConversation(item.name, marked, currentTheme, ok)
    IN /\ currentContact' = item.name
       /\ currentGroupId' = NoGroup
       /\ store' = marked
       /\ messageDisplay' = load.display
       /\ calls' = <<ClearRecipients,
                     [call |-> "messenger_mark_conversation_read",
                      contact |-> item.name]>> \o load.calls

\* SelectGroup that leaves the contact of the conversation before.
SelectGroupKeepingContact(item, infoOk, ok) ==
    LET load == loadGroupConversation(item.groupId, store, currentTheme, infoOk, ok)
    IN /\ currentContact' = currentContact
       /\ currentGroupId' = item.groupId
       /\ store' = store
       /\ messageDisplay' = load.display
       /\ calls' = <<ClearRecipients>> \o load.calls

\* Lines 680-689: a group item.
SelectGroup(item, infoOk, ok) ==
    LET load == loadGroupConversation(item.groupId, store, currentTheme, infoOk, ok)
    IN /\ currentContact' = ""
       /\ currentGroupId' = item.groupId
       /\ store' = store
       /\ messageDisplay' = load.display
       /\ calls' = <<ClearRecipients>> \o load.calls

\* onContactSelected without the clear of line 666.
onContactSelectedKeepingRecipients ==
    /\ ~dialog.open
    /\ \E itemText \in DOMAIN contactItems, infoOk \in BOOLEAN, ok \in BOOLEAN :
          LET contactItem == contactItems[itemText]
          IN /\ currentContactType' = contactItem.type
             /\ additionalRecipients' = additionalRecipients
             /\ IF contactItem.type = TYPE_CONTACT
                THEN infoOk /\ SelectContact(contactItem, ok)
                ELSE SelectGroup(contactItem, infoOk, ok)
    /\ handler' = "onContactSelected"
    /\ UNCHANGED <<inflight, seq, lastCheckedMessageId, currentTheme,
                   messageInput, dialog, processed, maxReturned>>

\* onContactSelected(item): lines 652-690.
onContactSelected ==
    /\ ~dialog.open
    /\ \E itemText \in DOMAIN contactItems, infoOk \in BOOLEAN, ok \in BOOLEAN :
          LET contactItem == contactItems[itemText]
          IN /\ currentContactType' = contactItem.type
             /\ additionalRecipients' = <<>>
             /\ IF contactItem.type = TYPE_CONTACT
                THEN infoOk /\ SelectContact(contactItem, ok)
                ELSE SelectGroup(contactItem, infoOk, ok)
    /\ handler' = "onContactSelected"
    /\ UNCHANGED <<inflight, seq, lastCheckedMessageId, currentTheme,
                   messageInput, dialog, processed, maxReturned>>

\* onRefreshMessages with loaders that do not clear the display first.
onRefreshMessagesAppending ==
    /\ ~dialog.open
    /\ \E infoOk \in BOOLEAN, ok \in BOOLEAN :
          IF currentContactType = TYPE_CONTACT /\ currentContact # ""
          THEN LET load == loadConversation(currentContact, store, currentTheme, ok)
               IN /\ infoOk
                  /\ messageDisplay' = messageDisplay \o Tail(load.display)
                  /\ calls' = load.calls
          ELSE IF currentContactType = TYPE_GROUP /\ currentGroupId >= 0
               THEN LET load == loadGroupConversation(currentGroupId, store,
                                                      currentTheme, infoOk, ok)
                    IN /\ messageDisplay' = messageDisplay \o Tail(load.display)
                       /\ calls' = load.calls
               ELSE infoOk /\ ok /\ messageDisplay' = messageDisplay /\ calls' = <<>>
    /\ handler' = "onRefreshMessages"
    /\ UNCHANGED <<store, inflight, seq, lastCheckedMessageId, currentContact,
                   currentGroupId, currentContactType, additionalRecipients,
                   currentTheme, messageInput, dialog, processed, maxReturned>>

\* onRefreshMessages: lines 1068-1075.
onRefreshMessages ==
    /\ ~dialog.open
    /\ \E infoOk \in BOOLEAN, ok \in BOOLEAN :
          IF currentContactType = TYPE_CONTACT /\ currentContact # ""
          THEN LET load == loadConversation(currentContact, store, currentTheme, ok)
               IN infoOk /\ messageDisplay' = load.display /\ calls' = load.calls
          ELSE IF currentContactType = TYPE_GROUP /\ currentGroupId >= 0
               THEN LET load == loadGroupConversation(currentGroupId, store,
                                                      currentTheme, infoOk, ok)
                    IN messageDisplay' = load.display /\ calls' = load.calls
               ELSE infoOk /\ ok /\ messageDisplay' = messageDisplay /\ calls' = <<>>
    /\ handler' = "onRefreshMessages"
    /\ UNCHANGED <<store, inflight, seq, lastCheckedMessageId, currentContact,
                   currentGroupId, currentContactType, additionalRecipients,
                   currentTheme, messageInput, dialog, processed, maxReturned>>

\* applyTheme(themeName): lines 1416-1797; the widget styles are left out.
applyThemeTo(themeName, ok) ==
    /\ currentTheme' = themeName
    /\ IF currentContact # ""
       THEN LET load == loadConversation(currentContact, store, themeName, ok)
            IN messageDisplay' = load.display /\ calls' = load.calls
       ELSE ok /\ messageDisplay' = messageDisplay /\ calls' = <<>>
    /\ UNCHANGED <<store, inflight, seq, lastCheckedMessageId, currentContact,
                   currentGroupId, currentContactType, additionalRecipients,
                   messageInput, dialog, processed, maxReturned>>

\* onThemeIO, onThemeClub: lines 1408-1414.
applyTheme ==
    /\ ~dialog.open
    /\ \E themeName \in Themes, ok \in BOOLEAN : applyThemeTo(themeName, ok)
    /\ handler' = "applyTheme"

\* applyFontScale(scale): lines 1815-1834. The scale only sizes the fonts,
\* which the blocks of the display leave out; the theme is applied again.
applyFontScale ==
    /\ ~dialog.open
    /\ \E ok \in BOOLEAN : applyThemeTo(currentTheme, ok)
    /\ handler' = "applyFontScale"

\* The dialog when no exec() is running.
NoDialog == [open |-> FALSE, items |-> <<>>]

\* What messenger_get_contact_list may return to the dialog: the list of the
\* constructor, or one in which an identity is listed twice.
ContactLists == {ContactList, <<"alice", "bob", "carol", "carol">>}

\* DialogList without the test for the local identity.
DialogListWithSelf(identities) ==
    SelectSeq(identities, LAMBDA c : c # currentContact)

\* Lines 1861-1880: the contacts the dialog lists.
DialogList(identities) ==
    SelectSeq(identities, LAMBDA c : c # currentContact /\ c # currentIdentity)

\* Lines 1869-1872: the items selected when the dialog opens.
Preselected(items) ==
    {i \in DOMAIN items :
        \E k \in DOMAIN additionalRecipients : additionalRecipients[k] = items[i]}

RECURSIVE Toggled(_, _)
\* MultiSelection mode: each click on an item selects or deselects it.
Toggled(selected, clicks) ==
    IF clicks = <<>> THEN selected
    ELSE LET i == Head(clicks)
         IN Toggled(IF i \in selected THEN selected \ {i} ELSE selected \cup {i},
                    Tail(clicks))

\* Sequences of at most n clicks on the items.
ClickSeqs(items, n) ==
    UNION {[1..len -> DOMAIN items] : len \in 0..n}

\* Lines 1901-1904: the prefix of a contact item is stripped from its text.
StripContactPrefix(text) ==
    IF text[1] = ContactText("")[1] THEN text[2] ELSE text

\* Lines 1898-1907: the names of the selected items, top to bottom.
SelectedContacts(items, selected) ==
    LET picked == SelectSeq([i \in DOMAIN items |-> i], LAMBDA i : i \in selected)
    IN [k \in 1..Len(picked) |-> StripContactPrefix(ContactText(items[picked[k]]))]

\* onAddRecipients up to dialog.exec(): lines 1836-1891. With no contact open
\* a warning is shown and the handler returns.
onAddRecipientsFrom(lists) ==
    /\ ~dialog.open
    /\ IF currentContact = ""
       THEN /\ dialog' = dialog
            /\ calls' = <<[call |-> "QMessageBox::warning"]>>
       ELSE \E identities \in lists :
               /\ dialog' = [open |-> TRUE, items |-> DialogList(identities)]
               /\ calls' = <<[call |-> "messenger_get_contact_list",
                              identities |-> identities]>>
    /\ handler' = "onAddRecipients"
    /\ UNCHANGED <<store, inflight, seq, lastCheckedMessageId, currentContact,
                   currentGroupId, currentContactType, additionalRecipients,
                   currentTheme, messageInput, messageDisplay, processed,
                   maxReturned>>

onAddRecipients == onAddRecipientsFrom({ContactList})

onAddRecipientsAnyList == onAddRecipientsFrom(ContactLists)

\* dialog.exec() returns Accepted after the user's clicks: lines 1893-1917.
DialogAccept ==
    /\ dialog.open
    /\ \E clicks \in ClickSeqs(dialog.items, MaxClicks) :
          LET selected == Toggled(Preselected(dialog.items), clicks)
          IN /\ additionalRecipients' = SelectedContacts(dialog.items, selected)
             /\ calls' = <<[call |-> "dialog.exec", result |-> "Accepted",
                            items |-> dialog.items,
                            preselected |-> Preselected(dialog.items),
                            clicks |-> clicks]>>
    /\ dialog' = NoDialog
    /\ handler' = "onAddRecipients"
    /\ UNCHANGED <<store, inflight, seq, lastCheckedMessageId, currentContact,
                   currentGroupId, currentContactType, currentTheme,
                   messageInput, messageDisplay, processed, maxReturned>>

\* DialogReject starting the poll over from the first message.
DialogRejectRewinding ==
    /\ dialog.open
    /\ dialog' = NoDialog
    /\ calls' = <<[call |-> "dialog.exec", result |-> "Rejected",
                   items |-> dialog.items,
                   preselected |-> Preselected(dialog.items),
                   clicks |-> <<>>]>>
    /\ handler' = "onAddRecipients"
    /\ lastCheckedMessageId' = 0
    /\ UNCHANGED <<store, inflight, seq, currentContact,
                   currentGroupId, currentContactType, additionalRecipients,
                   currentTheme, messageInput, messageDisplay, processed,
                   maxReturned>>

\* dialog.exec() returns Rejected: line 1893, nothing follows.
DialogReject ==
    /\ dialog.open
    /\ dialog' = NoDialog
    /\ calls' = <<[call |-> "dialog.exec", result |-> "Rejected",
                   items |-> dialog.items,
                   preselected |-> Preselected(dialog.items),
                   clicks |-> <<>>]>>
    /\ handler' = "onAddRecipients"
    /\ UNCHANGED <<store, inflight, seq, lastCheckedMessageId, currentContact,
                   currentGroupId, currentContactType, additionalRecipients,
                   currentTheme, messageInput, messageDisplay, processed,
                   maxReturned>>

(***************************************************************************)
(* The message input and onSendMessage.                                    *)
(***************************************************************************)
\* Texts the user may have in the input, one character per element.
Inputs == {<<>>, <<" ", " ">>, <<" ", "<", "3", " ">>}

\* The user edits the input: the line edit has no handler in the window.
EditInput ==
    /\ ~dialog.open
    /\ \E text \in Inputs : text # messageInput /\ messageInput' = text
    /\ handler' = "messageInput"
    /\ calls' = <<>>
    /\ UNCHANGED <<store, inflight, seq, lastCheckedMessageId, currentContact,
                   currentGroupId, currentContactType, additionalRecipients,
                   currentTheme, dialog, messageDisplay, processed, maxReturned>>

Whitespace == {" ", "\t", "\n"}

RECURSIVE trimmedLeft(_)
trimmedLeft(s) ==
    IF s # <<>> /\ Head(s) \in Whitespace THEN trimmedLeft(Tail(s)) ELSE s

RECURSIVE trimmedRight(_)
trimmedRight(s) ==
    IF s # <<>> /\ s[Len(s)] \in Whitespace
    THEN trimmedRight(SubSeq(s, 1, Len(s) - 1)) ELSE s

\* QString::trimmed(): the text without its leading and trailing whitespace.
trimmed(s) == trimmedRight(trimmedLeft(s))

\* QDateTime::currentDateTime().toString("HH:mm") at the time of a send.
Clock == {mid(TsNight, 11, 5)}

\* SendRecipients with the primary recipient last.
SendRecipientsPrimaryLast == additionalRecipients \o <<currentContact>>

\* Lines 996-1008: the primary recipient, then the additional ones.
SendRecipients == <<currentContact>> \o additionalRecipients

\* SendDone clearing the input whatever the result.
SendDoneClearingInput(sendCall, result, message, timestamp) ==
    IF result = 0
    THEN /\ messageDisplay' =
               Append(messageDisplay,
                      SentBubble(currentTheme, timestamp,
                                 [marks |-> 1, color |-> "#888888"], message))
         /\ messageInput' = <<>>
         /\ calls' = <<sendCall>>
    ELSE /\ calls' = <<sendCall, [call |-> "QMessageBox::critical"]>>
         /\ messageInput' = <<>>
         /\ UNCHANGED messageDisplay

\* Lines 1016-1065: what follows the send call, by its result.
SendDone(sendCall, result, message, timestamp) ==
    IF result = 0
    THEN /\ messageDisplay' =
               Append(messageDisplay,
                      SentBubble(currentTheme, timestamp,
                                 [marks |-> 1, color |-> "#888888"], message))
         /\ messageInput' = <<>>
         /\ calls' = <<sendCall>>
    ELSE /\ calls' = <<sendCall, [call |-> "QMessageBox::critical"]>>
         /\ UNCHANGED <<messageDisplay, messageInput>>

\* onSendMessage: lines 981-1066. The rows the core writes reach the store
\* as steps of the store.
onSendMessage ==
    /\ ~dialog.open
    /\ Len(messageDisplay) <= MaxDisplay
    /\ LET message == trimmed(messageInput)
       IN IF message = <<>>
          THEN calls' = <<>> /\ UNCHANGED <<messageDisplay, messageInput>>
          ELSE IF currentContactType = TYPE_GROUP /\ currentGroupId >= 0
               THEN \E result \in {0, -1}, timestamp \in Clock :
                       SendDone([call |-> "messenger_send_group_message",
                                 group_id |-> currentGroupId,
                                 message |-> message, result |-> result],
                                result, message, timestamp)
               ELSE IF currentContactType = TYPE_CONTACT /\ currentContact # ""
                    THEN \E result \in {0, -1}, timestamp \in Clock :
                            SendDone([call |-> "messenger_send_message",
                                      recipients |-> SendRecipients,
                                      message |-> message, result |-> result],
                                     result, message, timestamp)
                    ELSE /\ calls' = <<[call |-> "QMessageBox::warning"]>>
                         /\ UNCHANGED <<messageDisplay, messageInput>>
    /\ handler' = "onSendMessage"
    /\ UNCHANGED <<store, inflight, seq, lastCheckedMessageId, currentContact,
                   currentGroupId, currentContactType, additionalRecipients,
                   currentTheme, dialog, processed, maxReturned>>

(***************************************************************************)
(* checkForNewMessages.                                                    *)
(***************************************************************************)
\* Lines 1092-1095 and 1152-1155: params[] keeps the constData() pointer of a
\* QByteArray temporary that is destroyed at the end of the declaration, so
\* PQexecParams reads freed memory: the bytes of the string when untouched,
\* other bytes when the allocator has reused or overwritten them.
DanglingRead(string) == {string, Garbage}

\* NewMessagesQuery without the condition on the id.
NewMessagesQueryFromStart(st, recipientParam, idParam) ==
    LET rows == SortById({m \in st : m.recipient = recipientParam})
    IN [i \in 1..Len(rows) |->
           [id |-> IntToStr(rows[i].id), sender |-> rows[i].sender,
            created_at |-> rows[i].created_at]]

\* Lines 1086-1090: SELECT id, sender, created_at FROM messages WHERE
\* recipient = $1 AND id > $2 ORDER BY id ASC, the values as text.
NewMessagesQuery(st, recipientParam, idParam) ==
    LET rows == SortById({m \in st : m.recipient = recipientParam
                                     /\ m.id > atoi(idParam)})
    IN [i \in 1..Len(rows) |->
           [id |-> IntToStr(rows[i].id), sender |-> rows[i].sender,
            created_at |-> rows[i].created_at]]

\* AdvanceCursor with the comparison turned round.
AdvanceCursorFlipped(cursor, msgId) == IF msgId < cursor THEN msgId ELSE cursor

\* Lines 1111-1113.
AdvanceCursor(cursor, msgId) == IF msgId > cursor THEN msgId ELSE cursor

\* ShouldRefresh without the comparison: every new message reloads.
ShouldRefreshAlways(contact, sender) == TRUE

\* Line 1131.
ShouldRefresh(contact, sender) == contact = sender

Count(p, id) == IF id \in DOMAIN p THEN p[id] ELSE 0

Bump(p, id) == [x \in DOMAIN p \cup {id} |-> IF x = id THEN Count(p, id) + 1 ELSE p[x]]

\* DeliveryCalls with no notification for the contact whose conversation is
\* open.
DeliveryCallsQuiet(msgId, sender, timestamp) ==
    <<[call |-> "messenger_mark_delivered", id |-> msgId]>>
    \o (IF sender = currentContact THEN <<>>
        ELSE <<[call |-> "showMessage", sender |-> sender, timestamp |-> timestamp]>>)

\* Lines 1115-1128: the calls made for one fetched row.
DeliveryCalls(msgId, sender, timestamp) ==
    <<[call |-> "messenger_mark_delivered", id |-> msgId],
      [call |-> "showMessage", sender |-> sender, timestamp |-> timestamp]>>

\* Lines 1107-1133: one pass of the loop, on the state s of the pass before.
PollStep(s, row, ok) ==
    LET msgId == atoi(row.id)
        marked == messenger_mark_delivered(s.store, msgId)
        refresh == ShouldRefresh(currentContact, row.sender)
        load == loadConversation(currentContact, marked, currentTheme, ok)
    IN [store |-> marked,
        cursor |-> AdvanceCursor(s.cursor, msgId),
        display |-> IF refresh THEN load.display ELSE s.display,
        calls |-> s.calls \o DeliveryCalls(msgId, row.sender, row.created_at)
                  \o (IF refresh
                      THEN <<[call |-> "loadConversation", contact |-> currentContact]>>
                           \o load.calls
                      ELSE <<>>),
        processed |-> Bump(s.processed, msgId)]

RECURSIVE PollLoop(_, _, _, _)
\* Lines 1106-1134: the loop over the rows of the result, from row i.
PollLoop(s, rows, oks, i) ==
    IF i > Len(rows) THEN s
    ELSE PollLoop(PollStep(s, rows[i], oks[i]), rows, oks, i + 1)

QueryCall(name, status, rows) ==
    [call |-> "PQexecParams", query |-> name, status |-> status, rows |-> rows]

\* PollAbort starting over from the first message.
PollAbortRewinds ==
    /\ calls' = <<QueryCall("new messages", "PGRES_FATAL_ERROR", <<>>)>>
    /\ lastCheckedMessageId' = 0
    /\ UNCHANGED <<store, messageDisplay, processed, maxReturned>>

\* Lines 1099-1102: the result is not PGRES_TUPLES_OK.
PollAbort ==
    /\ calls' = <<QueryCall("new messages", "PGRES_FATAL_ERROR", <<>>)>>
    /\ UNCHANGED <<store, lastCheckedMessageId, messageDisplay, processed, maxReturned>>

\* Lines 1104-1136: the result is PGRES_TUPLES_OK.
PollRows(rows, oks) ==
    LET s0 == [store |-> store, cursor |-> lastCheckedMessageId,
               display |-> messageDisplay,
               calls |-> <<QueryCall("new messages", "PGRES_TUPLES_OK", rows)>>,
               processed |-> processed]
    IN \E s \in {PollLoop(s0, rows, oks, 1)} :
          /\ store' = s.store
          /\ lastCheckedMessageId' = s.cursor
          /\ messageDisplay' = s.display
          /\ calls' = s.calls
          /\ processed' = s.processed
          /\ maxReturned' = MaxOf({maxReturned} \cup {atoi(rows[i].id) : i \in 1..Len(rows)})

\* checkForNewMessages: lines 1077-1137, on a timer of 5 seconds.
checkForNewMessages ==
    /\ \A id \in DOMAIN processed : processed[id] < MaxCount
    /\ \E recipientParam \in DanglingRead(currentIdentity), tuplesOk \in BOOLEAN :
          LET id_str == IntToStr(lastCheckedMessageId)
          IN \E rows \in {NewMessagesQuery(store, recipientParam, id_str)} :
                IF tuplesOk
                THEN \E oks \in [1..Len(rows) -> BOOLEAN] : PollRows(rows, oks)
                ELSE recipientParam = currentIdentity /\ PollAbort
    /\ handler' = "checkForNewMessages"
    /\ UNCHANGED <<inflight, seq, currentContact, currentGroupId,
                   currentContactType, additionalRecipients, currentTheme,
                   messageInput, dialog>>

(***************************************************************************)
(* checkForStatusUpdates.                                                  *)
(***************************************************************************)
\* Lines 1147-1150: SELECT COUNT(*) FROM messages WHERE sender = $1 AND
\* recipient = $2 AND status IN ('delivered', 'read'), the value as text.
StatusCountQuery(st, senderParam, recipientParam) ==
    IntToStr(Cardinality({m \in st : /\ m.sender = senderParam
                                     /\ m.recipient = recipientParam
                                     /\ m.status \in {"delivered", "read"}}))

\* Lines 1159-1162: the result is not PGRES_TUPLES_OK.
StatusAbort ==
    /\ calls' = <<QueryCall("status count", "PGRES_FATAL_ERROR", <<>>)>>
    /\ UNCHANGED messageDisplay

\* StatusRefresh loading the conversation whatever the count.
StatusRefreshAlways(value, ok) ==
    LET load == loadConversation(currentContact, store, currentTheme, ok)
        query == QueryCall("status count", "PGRES_TUPLES_OK", <<value>>)
    IN /\ messageDisplay' = load.display
       /\ calls' = <<query, [call |-> "loadConversation", contact |-> currentContact]>>
                   \o load.calls

\* Lines 1166-1170.
StatusRefresh(value, ok) ==
    LET statusCount == atoi(value)
        load == loadConversation(currentContact, store, currentTheme, ok)
        query == QueryCall("status count", "PGRES_TUPLES_OK", <<value>>)
    IN IF statusCount > 0
       THEN /\ messageDisplay' = load.display
            /\ calls' = <<query, [call |-> "loadConversation", contact |-> currentContact]>>
                        \o load.calls
       ELSE /\ ok
            /\ messageDisplay' = messageDisplay
            /\ calls' = <<query>>

\* checkForStatusUpdates clearing the additional recipients.
checkForStatusUpdatesClearing ==
    /\ IF currentContact = ""
       THEN calls' = <<>> /\ UNCHANGED messageDisplay
       ELSE \E senderParam \in DanglingRead(currentIdentity),
               recipientParam \in DanglingRead(currentContact),
               tuplesOk \in BOOLEAN, ok \in BOOLEAN :
               IF tuplesOk
               THEN StatusRefresh(StatusCountQuery(store, senderParam, recipientParam), ok)
               ELSE /\ senderParam = currentIdentity /\ recipientParam = currentContact /\ ok
                    /\ StatusAbort
    /\ additionalRecipients' = <<>>
    /\ handler' = "checkForStatusUpdates"
    /\ UNCHANGED <<store, inflight, seq, lastCheckedMessageId, currentContact,
                   currentGroupId, currentContactType,
                   currentTheme, messageInput, dialog, processed, maxReturned>>

\* checkForStatusUpdates: lines 1139-1173, on a timer of 10 seconds.
checkForStatusUpdates ==
    /\ IF currentContact = ""
       THEN calls' = <<>> /\ UNCHANGED messageDisplay
       ELSE \E senderParam \in DanglingRead(currentIdentity),
               recipientParam \in DanglingRead(currentContact),
               tuplesOk \in BOOLEAN, ok \in BOOLEAN :
               IF tuplesOk
               THEN StatusRefresh(StatusCountQuery(store, senderParam, recipientParam), ok)
               ELSE /\ senderParam = currentIdentity /\ recipientParam = currentContact /\ ok
                    /\ StatusAbort
    /\ handler' = "checkForStatusUpdates"
    /\ UNCHANGED <<store, inflight, seq, lastCheckedMessageId, currentContact,
                   currentGroupId, currentContactType, additionalRecipients,
                   currentTheme, messageInput, dialog, processed, maxReturned>>

(***************************************************************************)
(* The session.                                                            *)
(***************************************************************************)
\* Lines 81-82 and 162-165: the window as the constructor leaves it, over a
\* store with no row yet, the saved theme one of `themes`.
InitOf(themes) ==
    /\ store = {}
    /\ inflight = {}
    /\ seq = SeqStart
    /\ lastCheckedMessageId = 0
    /\ currentContact = ""
    /\ currentGroupId = NoGroup
    /\ currentContactType = TYPE_CONTACT
    /\ additionalRecipients = <<>>
    /\ currentTheme \in themes
    /\ messageInput = <<>>
    /\ dialog = NoDialog
    /\ messageDisplay = <<>>
    /\ handler = "MainWindow"
    /\ calls = <<>>
    /\ processed = [id \in {} |-> 0]
    /\ maxReturned = 0

Init == InitOf(Themes)

\* The window of a user who never changed the theme.
InitDefaultTheme == InitOf({"io"})

Next ==
    \/ StoreInsert
    \/ StoreInsertBegin
    \/ StoreCommit
    \/ StoreRollback
    \/ PeerMarks
    \/ onContactSelected
    \/ onRefreshMessages
    \/ onAddRecipients
    \/ DialogAccept
    \/ DialogReject
    \/ checkForNewMessages
    \/ checkForStatusUpdates

\* The session of the pollers: the store changing under the timers, the
\* user's selections and the add-recipients dialog. The pollers never read
\* the theme: the session runs in the default one.
Spec == InitDefaultTheme /\ [][Next]_vars

NextAssemble ==
    \/ StoreInsertVaried
    \/ onContactSelected
    \/ onRefreshMessages
    \/ applyTheme

\* The session of the loaders: conversations of every kind of row, loaded
\* in both themes.
SpecAssemble == Init /\ [][NextAssemble]_vars

NextPoll ==
    \/ StoreInsert
    \/ StoreInsertBegin
    \/ StoreCommit
    \/ StoreRollback
    \/ onContactSelected
    \/ checkForNewMessages

\* The session of the poll timer: lines 150-153 start a timer that fires
\* every 5 seconds for as long as the window lives.
SpecPoll ==
    /\ InitDefaultTheme
    /\ [][NextPoll]_vars
    /\ WF_vars(checkForNewMessages)

\* The message that reaches the store in the session of a user who writes.
ComposeShapes ==
    { [sender |-> "bob", recipient |-> "alice", created_at |-> TsMorning,
       status |-> "sent", group_id |-> NoGroup, plain |-> PlainHi],
      [sender |-> "alice", recipient |-> "bob", created_at |-> TsNight,
       status |-> "delivered", group_id |-> NoGroup, plain |-> PlainHeart] }

\* It is the only one.
StoreInsertOne == store = {} /\ StoreInsertFrom(ComposeShapes)

NextCompose ==
    \/ StoreInsertOne
    \/ onContactSelected
    \/ onAddRecipientsAnyList
    \/ DialogAccept
    \/ DialogReject
    \/ EditInput
    \/ onSendMessage
    \/ onRefreshMessages
    \/ applyTheme
    \/ applyFontScale
    \/ checkForNewMessages
    \/ checkForStatusUpdates

\* The session of a user who writes: targets selected, recipients added,
\* messages typed and sent, while the timers fire.
SpecCompose == InitDefaultTheme /\ [][NextCompose]_vars

(***************************************************************************)
(* Properties of the pollers.                                              *)
(***************************************************************************)
PollTick == "checkForNewMessages"

StatusTick == "checkForStatusUpdates"

\* The handler's query did not end in PGRES_TUPLES_OK.
QueryFailed(cs) ==
    Len(cs) >= 1 /\ cs[1].call = "PQexecParams" /\ cs[1].status # "PGRES_TUPLES_OK"

\* The handler's query ended in PGRES_TUPLES_OK.
QuerySucceeded(cs) ==
    Len(cs) >= 1 /\ cs[1].call = "PQexecParams" /\ cs[1].status = "PGRES_TUPLES_OK"

RowId(row) == atoi(row.id)

\* C1: lastCheckedMessageId never decreases, and after every step, a poll
\* tick or any other, it is the largest id that any poll query of the
\* session has returned so far (0 when none has returned a row).
C1_CursorIsMaxReturned ==
    /\ lastCheckedMessageId = maxReturned
    /\ [][/\ lastCheckedMessageId' >= lastCheckedMessageId
          /\ lastCheckedMessageId' = maxReturned']_vars

\* A tick that returned nothing has left the cursor on the id it had reached,
\* below the id of a newer row that is not addressed to the local identity.
C1_Witness ==
    /\ handler = PollTick
    /\ QuerySucceeded(calls)
    /\ calls[1].rows = <<>>
    /\ lastCheckedMessageId > 0
    /\ \E m \in store : m.id > lastCheckedMessageId

\* C2: ids being never reused and never decreasing, every message addressed
\* to the local identity is processed (marked delivered and notified) at
\* most once, and none is skipped: a message the cursor has passed has been
\* processed.
C2_OnceAndNoneSkipped ==
    \A m \in store :
        m.recipient = currentIdentity =>
            /\ Count(processed, m.id) <= 1
            /\ (m.id <= lastCheckedMessageId => Count(processed, m.id) = 1)

\* C3: a tick of either poller whose query fails changes nothing: the
\* cursor, the target, the recipients, the display and the store are as
\* before, and the query is the only call made (no mark-delivered, no
\* notification, no reload).
C3_FailedTickChangesNothing ==
    [][(handler' \in {PollTick, StatusTick} /\ QueryFailed(calls')) =>
          /\ Len(calls') = 1
          /\ UNCHANGED <<store, lastCheckedMessageId, currentContact,
                         currentGroupId, currentContactType,
                         additionalRecipients, messageDisplay, processed>>]_vars

\* A poll tick has failed with messages waiting, recipients added and a
\* conversation shown.
C3_Witness ==
    /\ handler = PollTick
    /\ QueryFailed(calls)
    /\ \E m \in store : m.recipient = currentIdentity /\ m.id > lastCheckedMessageId
    /\ additionalRecipients # <<>>
    /\ Len(messageDisplay) > 1

DeliveryCallNames == {"messenger_mark_delivered", "showMessage"}

\* C4: in a successful poll tick the rows returned are rows of the store
\* addressed to the local identity with an id above the cursor, in strictly
\* ascending id order, and for each, in that order, the poller makes exactly
\* one mark-delivered call with its id and then shows exactly one
\* notification with its sender and timestamp, whatever its status.
C4_OneDeliveryAndNoticePerRow ==
    [][(handler' = PollTick /\ QuerySucceeded(calls')) =>
          LET rows == calls'[1].rows
              made == SelectSeq(calls', LAMBDA c : c.call \in DeliveryCallNames)
          IN /\ Len(made) = 2 * Len(rows)
             /\ \A i \in 1..Len(rows) :
                   /\ made[2 * i - 1] =
                         [call |-> "messenger_mark_delivered", id |-> RowId(rows[i])]
                   /\ made[2 * i] =
                         [call |-> "showMessage", sender |-> rows[i].sender,
                          timestamp |-> rows[i].created_at]
                   /\ \E m \in store :
                         /\ m.id = RowId(rows[i])
                         /\ m.recipient = currentIdentity
                         /\ m.id > lastCheckedMessageId
                         /\ m.sender = rows[i].sender
                         /\ m.created_at = rows[i].created_at
                   /\ (i > 1 => RowId(rows[i - 1]) < RowId(rows[i]))]_vars

\* A tick has fetched two messages of different senders, the first already
\* read.
C4_Witness ==
    /\ handler = PollTick
    /\ QuerySucceeded(calls)
    /\ Len(calls[1].rows) = 2
    /\ calls[1].rows[1].sender # calls[1].rows[2].sender
    /\ \E m \in store : m.id = RowId(calls[1].rows[1]) /\ m.status = "read"

\* C5: in a poll tick, the conversation is reloaded after the notification
\* of a fetched message exactly when the sender of that message is the
\* contact whose conversation is open, the conversation reloaded is that
\* contact's, and nothing else in the tick reloads.
C5_ReloadIffSenderIsOpenContact ==
    handler = PollTick =>
        \A k \in DOMAIN calls :
            /\ calls[k].call = "showMessage" =>
                  /\ (k < Len(calls) /\ calls[k + 1].call = "loadConversation")
                        <=> (currentContact # "" /\ calls[k].sender = currentContact)
                  /\ calls[k].sender = currentContact =>
                        /\ calls[k + 1].contact = currentContact
                        /\ calls[k + 2].call = "messenger_get_conversation"
                        /\ calls[k + 2].contact = currentContact
                        /\ messageDisplay[1] = ConversationHeader(currentContact)
            /\ calls[k].call = "loadConversation" => calls[k - 1].call = "showMessage"

\* A tick has fetched a message of the open contact, which reloaded, and one
\* of another sender, which did not.
C5_Witness ==
    /\ handler = PollTick
    /\ currentContact # ""
    /\ \E k \in DOMAIN calls :
          /\ calls[k].call = "showMessage"
          /\ calls[k].sender # currentContact
          /\ k = Len(calls) \/ calls[k + 1].call # "loadConversation"
    /\ \E k \in DOMAIN calls : calls[k].call = "loadConversation"

(***************************************************************************)
(* Properties of the loaders.                                              *)
(***************************************************************************)
ReadCallNames == {"messenger_get_conversation", "messenger_get_group_conversation"}

\* The place among the handler's calls of its last read of a conversation, 0
\* when it made none: the display is what that read produced.
LastRead ==
    LET reads == {k \in DOMAIN calls : calls[k].call \in ReadCallNames}
    IN IF reads = {} THEN 0 ELSE MaxOf(reads)

\* The handler has loaded a conversation of this kind.
Loaded(readCall) == LastRead > 0 /\ calls[LastRead].call = readCall

\* The read of that load succeeded.
Assembled(readCall) == Loaded(readCall) /\ calls[LastRead].ok

\* The rows the read returned and the block shown for the i-th.
RowsRead == calls[LastRead].rows

Entry(i) == messageDisplay[i + 1]

\* The ids handed to messenger_decrypt_message by that load, in order.
Decrypted ==
    LET after == SubSeq(calls, LastRead + 1, Len(calls))
        asked == SelectSeq(after, LAMBDA c : c.call = "messenger_decrypt_message")
    IN [i \in 1..Len(asked) |-> asked[i].id]

DecryptedIds == {Decrypted[i] : i \in 1..Len(Decrypted)}

Unauthorized(m) == m.recipient # currentIdentity /\ m.sender # currentIdentity

\* The presentation state a checkmark stands for.
Badge(check) ==
    IF check.marks = 1 THEN "pending"
    ELSE IF check.color = "#888888" THEN "delivered" ELSE "read"

\* The status classifier as specified.
Classify(rawStatus) ==
    CASE rawStatus = NULL -> "pending"
      [] rawStatus = "sent" -> "pending"
      [] rawStatus = "delivered" -> "delivered"
      [] rawStatus = "read" -> "read"
      [] OTHER -> "pending"

C7_DecryptIffAddressedOrSent ==
    Assembled("messenger_get_conversation") =>
        /\ \A i \in 1..Len(RowsRead) :
              RowsRead[i].id \in DecryptedIds
                  <=> (RowsRead[i].recipient = currentIdentity
                       \/ RowsRead[i].sender = currentIdentity)
        /\ Cardinality(DecryptedIds) = Len(Decrypted)
        /\ \A i, j \in 1..Len(Decrypted) : i < j => Decrypted[i] < Decrypted[j]

\* A direct conversation is shown in the club theme with a sent message that
\* is read and was decrypted, and a message that was not handed to the core.
C7_Witness ==
    /\ Assembled("messenger_get_conversation")
    /\ currentTheme = "club"
    /\ \E i \in 1..Len(RowsRead) :
          /\ RowsRead[i].sender = currentIdentity
          /\ RowsRead[i].status = "read"
          /\ RowsRead[i].id \in DecryptedIds
    /\ \E i \in 1..Len(RowsRead) : RowsRead[i].id \notin DecryptedIds

\* C8 as claimed: in every assembled conversation a message sent by the
\* local identity shows as a sent bubble whose badge is classify(status),
\* whether or not it decrypts, and a message of another sender shows as a
\* received bubble with no badge.
C8_OwnBadgeIsClassifiedStatus ==
    \A readCall \in ReadCallNames :
        Assembled(readCall) =>
            \A i \in 1..Len(RowsRead) :
                IF RowsRead[i].sender = currentIdentity
                THEN /\ Entry(i).block = "sent"
                     /\ Badge(Entry(i).check) = Classify(RowsRead[i].status)
                ELSE /\ Entry(i).block = "received"
                     /\ "check" \notin DOMAIN Entry(i)

\* C8 as amended: so it is in every assembled direct conversation; in an
\* assembled group conversation a message sent by the local identity shows
\* as a sent bubble with the pending badge whatever its status, and a message
\* of another sender as a received bubble with no badge.
C8_OwnBadgeIsClassifiedStatusDirect ==
    /\ Assembled("messenger_get_conversation") =>
          \A i \in 1..Len(RowsRead) :
              IF RowsRead[i].sender = currentIdentity
              THEN /\ Entry(i).block = "sent"
                   /\ Badge(Entry(i).check) = Classify(RowsRead[i].status)
              ELSE /\ Entry(i).block = "received"
                   /\ "check" \notin DOMAIN Entry(i)
    /\ Assembled("messenger_get_group_conversation") =>
          \A i \in 1..Len(RowsRead) :
              IF RowsRead[i].sender = currentIdentity
              THEN /\ Entry(i).block = "sent"
                   /\ Badge(Entry(i).check) = "pending"
              ELSE /\ Entry(i).block = "received"
                   /\ "check" \notin DOMAIN Entry(i)

\* A direct conversation is shown with two read messages of the local
\* identity, one decrypted and one whose decryption failed.
C8_Witness ==
    /\ Assembled("messenger_get_conversation")
    /\ \E i, j \in 1..Len(RowsRead) :
          /\ RowsRead[i].sender = currentIdentity
          /\ RowsRead[j].sender = currentIdentity
          /\ RowsRead[i].status = "read"
          /\ RowsRead[j].status = "read"
          /\ Entry(i).text = <<"[decryption failed]">>
          /\ Entry(j).text = <<"hi">>

\* C9: the badge of a sent bubble of a direct conversation is pending for
\* no status and for "sent", delivered for "delivered", read for "read" and
\* pending for any other string; every sent bubble has one of the three.
C9_StatusClassifier ==
    Assembled("messenger_get_conversation") =>
        \A i \in 1..Len(RowsRead) :
            RowsRead[i].sender = currentIdentity =>
                LET status == RowsRead[i].status
                    badge == Badge(Entry(i).check)
                IN /\ badge \in {"pending", "delivered", "read"}
                   /\ status \in {NULL, "sent"} => badge = "pending"
                   /\ status = "delivered" => badge = "delivered"
                   /\ status = "read" => badge = "read"
                   /\ status \notin {NULL, "sent", "delivered", "read"} => badge = "pending"

\* A direct conversation is shown with a sent message of a status the window
\* does not know and one with no status.
C9_Witness ==
    /\ Assembled("messenger_get_conversation")
    /\ \E i, j \in 1..Len(RowsRead) :
          /\ RowsRead[i].sender = currentIdentity
          /\ RowsRead[j].sender = currentIdentity
          /\ RowsRead[i].status = "failed"
          /\ RowsRead[j].status = NULL

\* C10: a load shows one of three things, by the result of the read alone: a
\* read that succeeds with no message shows the empty state, a read that
\* fails shows the error, and a read that succeeds with n > 0 messages shows
\* n bubbles; so for loadConversation and for loadGroupConversation.
C10_EmptyFailureAndEntriesDistinct ==
    \A readCall \in ReadCallNames :
        Loaded(readCall) =>
            LET shown == SubSeq(messageDisplay, 2, Len(messageDisplay))
            IN /\ messageDisplay[1].block = "header"
               /\ ~calls[LastRead].ok =>
                     Len(shown) = 1 /\ shown[1].block = "error"
               /\ (calls[LastRead].ok /\ Len(RowsRead) = 0) =>
                     Len(shown) = 1 /\ shown[1].block = "empty"
               /\ (calls[LastRead].ok /\ Len(RowsRead) > 0) =>
                     /\ Len(shown) = Len(RowsRead)
                     /\ \A i \in 1..Len(shown) : shown[i].block \in {"sent", "received"}

\* The read of a direct conversation that holds messages has failed, and the
\* error is shown.
C10_Witness ==
    /\ Loaded("messenger_get_conversation")
    /\ ~calls[LastRead].ok
    /\ messageDisplay[2].block = "error"
    /\ messenger_get_conversation(store, currentContact) # <<>>

\* The text the entry of a row shows: the placeholder of a row the window
\* may not read, the placeholder of a row the core could not decrypt, or the
\* plaintext.
ShownText(m, gated) ==
    IF gated /\ Unauthorized(m) THEN <<"[encrypted]">>
    ELSE IF ~DecryptOk(m) THEN <<"[decryption failed]">>
         ELSE toHtmlEscaped(m.plain)

RenderEntry(e) ==
    [attribution |-> e.block,
     text |-> IF "text" \in DOMAIN e THEN e.text ELSE <<>>,
     time |-> IF "time" \in DOMAIN e THEN e.time ELSE <<>>,
     badge |-> IF "check" \in DOMAIN e THEN Badge(e.check) ELSE "none"]

RenderEntries == [i \in 1..Len(messageDisplay) |-> RenderEntry(messageDisplay[i])]

ConversationTarget == <<currentContactType, currentContact, currentGroupId>>

\* C12: when a handler assembles the conversation the handler before it
\* assembled, for the same target and from the same rows, the entries shown
\* are the same: as many, each with the same attribution, text, time and
\* badge.
C12_AssembleIdempotent ==
    [][\A readCall \in ReadCallNames :
          (/\ Assembled(readCall)
           /\ Assembled(readCall)'
           /\ ConversationTarget' = ConversationTarget
           /\ RowsRead' = RowsRead)
          => RenderEntries' = RenderEntries]_vars

\* A conversation with messages has been assembled again by a refresh.
C12_Witness ==
    /\ handler = "onRefreshMessages"
    /\ Assembled("messenger_get_conversation")
    /\ Len(RowsRead) > 1

(***************************************************************************)
(* Properties of the recipients, the target and the send.                  *)
(***************************************************************************)
Additional == {additionalRecipients[k] : k \in DOMAIN additionalRecipients}

\* The dialog has just been accepted.
Accepted ==
    /\ handler = "onAddRecipients"
    /\ calls # <<>>
    /\ calls[1].call = "dialog.exec"
    /\ calls[1].result = "Accepted"

\* The target has just been selected.
Selected == handler = "onContactSelected"

\* C13: in every state the additional recipients hold neither the contact
\* of the open conversation nor the local identity.
C13_NeitherPrimaryNorSelf ==
    /\ currentContact \notin Additional
    /\ currentIdentity \notin Additional

\* The dialog was accepted with a recipient chosen from a list that named
\* the open contact and the local identity, while a poll ran in between.
C13_Witness ==
    /\ Accepted
    /\ additionalRecipients # <<>>
    /\ currentContact = "bob"
    /\ lastCheckedMessageId > 0

RECURSIVE SelectionOrder(_, _)
\* The selected items in the order in which they were selected.
SelectionOrder(order, clicks) ==
    IF clicks = <<>> THEN order
    ELSE LET i == Head(clicks)
         IN SelectionOrder(IF \E k \in DOMAIN order : order[k] = i
                           THEN SelectSeq(order, LAMBDA j : j # i)
                           ELSE Append(order, i),
                           Tail(clicks))

\* C14: the list an accepted dialog produces names no identity twice,
\* whatever contact list the dialog was given, and names the chosen
\* candidates in the order in which the user selected them in a dialog that
\* opened with none selected.
C14_SelectionOrderNoDuplicates ==
    Accepted =>
        LET chosen == SelectionOrder(<<>>, calls[1].clicks)
        IN /\ Cardinality(Additional) = Len(additionalRecipients)
           /\ calls[1].preselected = {}
              => additionalRecipients =
                    [k \in 1..Len(chosen) |-> calls[1].items[chosen[k]]]

\* C15: a selection of a target leaves the additional recipients empty,
\* whatever they were and whether or not the target is a new one.
C15_SelectionClearsRecipients ==
    Selected => additionalRecipients = <<>>

\* A contact was selected in a window that held additional recipients.
C15_Witness ==
    /\ Selected
    /\ currentContact # ""
    /\ calls[1].held # <<>>

SendCalls == {"messenger_send_message", "messenger_send_group_message"}

\* The handler was onSendMessage and it called the core.
Sent == handler = "onSendMessage" /\ calls # <<>> /\ calls[1].call \in SendCalls

\* C16 as claimed: a send with a contact open hands the core the primary
\* recipient, then the additional recipients in their order, a list without
\* the local identity and with the primary once; a send with a group open
\* calls the group send with the group's id and no list.
C16_PrimaryFirstNoSelf ==
    Sent =>
        IF currentContactType = TYPE_GROUP
        THEN /\ calls[1].call = "messenger_send_group_message"
             /\ calls[1].group_id = currentGroupId
             /\ "recipients" \notin DOMAIN calls[1]
        ELSE /\ calls[1].call = "messenger_send_message"
             /\ calls[1].recipients = <<currentContact>> \o additionalRecipients
             /\ \A k \in DOMAIN calls[1].recipients :
                   /\ calls[1].recipients[k] # currentIdentity
                   /\ k > 1 => calls[1].recipients[k] # currentContact

\* C16 as amended: so it is, except that the primary recipient is the local
\* identity when the user has opened the conversation with it: the local
\* identity is never among the recipients that follow the primary.
C16_PrimaryFirstNoSelfAfterIt ==
    Sent =>
        IF currentContactType = TYPE_GROUP
        THEN /\ calls[1].call = "messenger_send_group_message"
             /\ calls[1].group_id = currentGroupId
             /\ "recipients" \notin DOMAIN calls[1]
        ELSE /\ calls[1].call = "messenger_send_message"
             /\ calls[1].recipients = <<currentContact>> \o additionalRecipients
             /\ \A k \in DOMAIN calls[1].recipients :
                   k > 1 => /\ calls[1].recipients[k] # currentIdentity
                            /\ calls[1].recipients[k] # currentContact

\* A message was sent to bob and carol.
C16_Witness ==
    /\ Sent
    /\ calls[1].call = "messenger_send_message"
    /\ calls[1].result = 0
    /\ calls[1].recipients = <<"bob", "carol">>

\* C17: a contact open means the type is TYPE_CONTACT and no group id; a
\* group id means the type is TYPE_GROUP and no contact; after a selection
\* exactly one of the two is open.
C17_OneTargetActive ==
    /\ currentContact # "" =>
          currentContactType = TYPE_CONTACT /\ currentGroupId = -1
    /\ currentGroupId >= 0 =>
          currentContactType = TYPE_GROUP /\ currentContact = ""
    /\ Selected => (currentContact # "") # (currentGroupId >= 0)

\* The group was selected in a window that had a contact open with
\* additional recipients.
C17_Witness ==
    /\ Selected
    /\ currentGroupId >= 0
    /\ calls[1].held # <<>>

\* The calls of the last handler that are named `name`.
CallsNamed(name) == {k \in DOMAIN calls : calls[k].call = name}

\* C18: a tick of checkForStatusUpdates loads the conversation again exactly
\* when a contact is open, the count query succeeded, and the store holds a
\* message from the local identity to that contact with status delivered or
\* read; the tick shows no notification and marks nothing delivered.
C18_RerenderIffDeliveredOrRead ==
    handler = StatusTick =>
        LET succeeded == calls # <<>> /\ calls[1].call = "PQexecParams"
                                      /\ calls[1].status = "PGRES_TUPLES_OK"
            statusCount == Cardinality({m \in store :
                               /\ m.sender = currentIdentity
                               /\ m.recipient = currentContact
                               /\ m.status \in {"delivered", "read"}})
        IN /\ CallsNamed("loadConversation") # {}
              <=> (currentContact # "" /\ succeeded /\ statusCount > 0)
           /\ CallsNamed("showMessage") = {}
           /\ CallsNamed("messenger_mark_delivered") = {}

\* The send call of the last handler returned success.
SendSucceeded == Sent /\ calls[1].result = 0

\* C19: a step of onSendMessage that makes no successful send (the core
\* returned failure, no target was open, or the trimmed input was empty)
\* adds nothing to the display, leaves the input as typed, and leaves the
\* target, the additional recipients and the cursor as they were; when the
\* core returned failure the error box is shown.
C19_FailedSendChangesNothing ==
    [][(handler' = "onSendMessage" /\ ~SendSucceeded')
       => /\ messageDisplay' = messageDisplay
          /\ messageInput' = messageInput
          /\ currentContact' = currentContact
          /\ currentGroupId' = currentGroupId
          /\ currentContactType' = currentContactType
          /\ additionalRecipients' = additionalRecipients
          /\ lastCheckedMessageId' = lastCheckedMessageId
          /\ Sent' => CallsNamed("QMessageBox::critical")' # {}]_vars

\* The core refused a message typed for bob and one more recipient, after a
\* poll had moved the cursor and with the conversation on display.
C19_Witness ==
    /\ Sent
    /\ calls[1].result # 0
    /\ additionalRecipients # <<>>
    /\ trimmed(messageInput) # <<>>
    /\ messageDisplay # <<>>
    /\ lastCheckedMessageId > 0

\* C20: lastCheckedMessageId changes in steps of checkForNewMessages only:
\* selection, the loaders, send, refresh, theme and font, the dialog and
\* checkForStatusUpdates leave it as it was.
C20_CursorWrittenByPollOnly ==
    [][lastCheckedMessageId' # lastCheckedMessageId => handler' = PollTick]_vars

\* Another handler than the poll has run since the poll moved the cursor:
\* checkForStatusUpdates, and it ran its query for the open contact.
C20_Witness ==
    /\ handler = StatusTick
    /\ lastCheckedMessageId > 0
    /\ CallsNamed("PQexecParams") # {}

(***************************************************************************)
(* Properties of the status calls, the group loader and the timers.        *)
(***************************************************************************)
StatusOf(st) == {<<m.id, m.status>> : m \in st}

\* The ids of the rows a poll query returned, in its order.
FetchedIds(cs) == [i \in 1..Len(cs[1].rows) |-> RowId(cs[1].rows[i])]

\* The ids handed to messenger_mark_delivered, in the order of the calls.
MarkedIds(cs) ==
    LET marks == SelectSeq(cs, LAMBDA c : c.call = "messenger_mark_delivered")
    IN [i \in 1..Len(marks) |-> marks[i].id]

\* C21: a handler changes the status of a row only with a call of the core,
\* and makes such calls at two places: a poll tick calls
\* messenger_mark_delivered once for each row it fetched, and a selection of
\* a contact calls messenger_mark_conversation_read for that contact before
\* it reads the conversation; a failed poll, a group selection, the loaders,
\* refresh, the status tick, send, theme and dialog make neither call.
C21_StatusCallsAtTwoPlaces ==
    [][handler' # "store" =>
        LET marks == CallsNamed("messenger_mark_delivered")'
            reads == CallsNamed("messenger_mark_conversation_read")'
            loads == CallsNamed("messenger_get_conversation")'
        IN /\ StatusOf(store') # StatusOf(store) => marks \cup reads # {}
           /\ IF handler' = PollTick
              THEN /\ reads = {}
                   /\ IF QuerySucceeded(calls')
                      THEN MarkedIds(calls') = FetchedIds(calls')
                      ELSE marks = {}
              ELSE IF handler' = "onContactSelected" /\ currentContact' # ""
                   THEN /\ marks = {}
                        /\ Cardinality(reads) = 1
                        /\ \A k \in reads : /\ calls'[k].contact = currentContact'
                                            /\ \A l \in loads : k < l
                        /\ loads # {}
                   ELSE marks = {} /\ reads = {}]_vars

\* A contact was selected whose message to the local identity became read,
\* and the conversation read after that shows it.
C21_Witness ==
    /\ Selected
    /\ currentContact # ""
    /\ \E m \in store : m.sender = currentContact /\ m.status = "read"
    /\ Len(messageDisplay) > 1

\* C22: in an assembled group conversation every message of the local
\* identity shows the single grey checkmark of a message that is sent,
\* whether its status is none, "sent", "delivered" or "read".
C22_GroupOwnCheckmarkFixed ==
    Assembled("messenger_get_group_conversation") =>
        \A i \in 1..Len(RowsRead) :
            RowsRead[i].sender = currentIdentity =>
                /\ Entry(i).block = "sent"
                /\ Entry(i).check = [marks |-> 1, color |-> "#888888"]

\* A group conversation is shown with two messages of the local identity,
\* one read and one delivered.
C22_Witness ==
    /\ Assembled("messenger_get_group_conversation")
    /\ \E i, j \in 1..Len(RowsRead) :
          /\ RowsRead[i].sender = currentIdentity
          /\ RowsRead[j].sender = currentIdentity
          /\ RowsRead[i].status = "read"
          /\ RowsRead[j].status = "delivered"

\* The handler asked for the group's info and did not get it.
InfoFailed ==
    \E k \in DOMAIN calls : calls[k].call = "messenger_get_group_info" /\ ~calls[k].ok

\* C23: when the group's info cannot be read the display starts with the
\* generic header and the messages are read all the same: what follows the
\* header is what followed it in the display before, when that one was
\* loaded with the info from the same rows, with the same result of the
\* read, for the same group and theme.
C23_InfoFailureKeepsBody ==
    [][InfoFailed' =>
        /\ messageDisplay'[1] = [block |-> "header", title |-> <<"Group Conversation">>]
        /\ Loaded("messenger_get_group_conversation")'
        /\ (/\ Loaded("messenger_get_group_conversation")
            /\ ~InfoFailed
            /\ calls'[LastRead'].id = calls[LastRead].id
            /\ calls'[LastRead'].ok = calls[LastRead].ok
            /\ RowsRead' = RowsRead
            /\ currentTheme' = currentTheme)
           => Tail(messageDisplay') = Tail(messageDisplay)]_vars

\* The group was loaded without its info and shows its two messages.
C23_Witness ==
    /\ InfoFailed
    /\ Assembled("messenger_get_group_conversation")
    /\ Len(RowsRead) = 2
    /\ Len(messageDisplay) = 3

\* A poll tick has just run whose query succeeded on the parameters as
\* written: no row to the local identity above the cursor is left.
PollCaughtUp ==
    /\ handler = PollTick
    /\ QuerySucceeded(calls)
    /\ \A m \in store : m.recipient = currentIdentity => m.id <= lastCheckedMessageId

\* C24: with the poll timer running, if the query succeeds again and again,
\* every message to the local identity that comes to be in the store is in
\* the end fetched, marked delivered and notified.
C24_EveryMessageEventuallyProcessed ==
    []<>PollCaughtUp =>
        \A id \in (SeqStart + 1)..MaxId :
            (\E m \in store : m.id = id /\ m.recipient = currentIdentity)
                ~> (Count(processed, id) > 0)

\* The checkmarks of the sent bubbles of a display, top to bottom.
Checkmarks(display) ==
    LET own == SelectSeq(display, LAMBDA b : b.block = "sent")
    IN [i \in 1..Len(own) |-> own[i].check]

\* The rows of the open conversation that the local identity sent and that
\* are delivered or read.
DeliveredOrRead ==
    {m \in store : /\ m.sender = currentIdentity
                   /\ m.recipient = currentContact
                   /\ m.status \in {"delivered", "read"}}

\* C25 as claimed: a status tick loads the conversation again only when a
\* message of the local identity has become delivered or read since the
\* display was made, so that the checkmarks it shows are no longer those on
\* display; a tick at which they still are loads nothing.
C25_RerenderOnlyOnTransition ==
    [][(handler' = StatusTick /\ CallsNamed("loadConversation")' # {})
       => Checkmarks(messageDisplay') # Checkmarks(messageDisplay)]_vars

\* C25 as amended: a status tick loads the conversation again exactly when
\* its query returned a count above zero, and then a contact is open and the
\* store holds a message of the local identity to that contact that is
\* delivered or read, whether or not it was so when the display was made.
C25_RerenderOnlyIfDeliveredOrRead ==
    handler = StatusTick =>
        /\ CallsNamed("loadConversation") # {}
           <=> (QuerySucceeded(calls) /\ atoi(calls[1].rows[1]) > 0)
        /\ CallsNamed("loadConversation") # {}
           => /\ currentContact # ""
              /\ currentContactType = TYPE_CONTACT
              /\ DeliveredOrRead # {}

\* A status tick has loaded the conversation again, in which the message of
\* the local identity is read.
C25_Witness ==
    /\ handler = StatusTick
    /\ CallsNamed("loadConversation") # {}
    /\ \E m \in DeliveredOrRead : m.status = "read"
    /\ Checkmarks(messageDisplay) # <<>>

\* The rows of the open conversation that the local identity sent, as the
\* core returns them.
OwnRows ==
    SelectSeq(messenger_get_conversation(store, currentContact),
              LAMBDA m : m.sender = currentIdentity)

\* C26: after a status tick whose query succeeded, with a contact open and a
\* message of the local identity to that contact delivered or read in the
\* store, the sent bubbles on display are those of the messages of the local
\* identity and each shows the badge of the status its message has now.
C26_BadgesFreshAfterTick ==
    (/\ handler = StatusTick
     /\ QuerySucceeded(calls)
     /\ DeliveredOrRead # {}
     /\ Checkmarks(messageDisplay) # <<>>)
    => /\ Len(Checkmarks(messageDisplay)) = Len(OwnRows)
       /\ \A i \in 1..Len(OwnRows) :
             Badge(Checkmarks(messageDisplay)[i]) = Classify(OwnRows[i].status)

\* C27: the cursor starts at 0, and a poll tick that succeeds with the
\* cursor still at 0, as the first successful tick of a session does,
\* fetches every message to the local identity that the store holds, whatever
\* its status, and marks each delivered and notifies it.
C27_FirstPollFetchesAll ==
    /\ lastCheckedMessageId = 0
    /\ [][(handler' = PollTick /\ QuerySucceeded(calls') /\ lastCheckedMessageId = 0)
          => \A m \in store :
                m.recipient = currentIdentity =>
                    /\ \E i \in DOMAIN FetchedIds(calls') : FetchedIds(calls')[i] = m.id
                    /\ \E i \in DOMAIN MarkedIds(calls') : MarkedIds(calls')[i] = m.id
                    /\ \E k \in CallsNamed("showMessage")' :
                          /\ calls'[k].sender = m.sender
                          /\ calls'[k].timestamp = m.created_at
                    /\ Count(processed', m.id) = Count(processed, m.id) + 1]_vars

\* A message to the local identity is in the store under this id, the cursor
\* has reached or passed the id, and the message was never processed.
Skipped(id) ==
    /\ \E m \in store : m.id = id /\ m.recipient = currentIdentity
    /\ id <= lastCheckedMessageId
    /\ Count(processed, id) = 0

\* C28: a message to the local identity that the store shows only after a
\* poll has fetched a larger id stays as it is in every later step: no poll
\* tick fetches it, marks it delivered or notifies it.
C28_LateMessageNeverFetched ==
    [][\A id \in (SeqStart + 1)..MaxId :
          Skipped(id) =>
              /\ Skipped(id)'
              /\ handler' = PollTick =>
                    /\ \A k \in CallsNamed("messenger_mark_delivered")' :
                          calls'[k].id # id
                    /\ QuerySucceeded(calls') =>
                          \A i \in DOMAIN calls'[1].rows : RowId(calls'[1].rows[i]) # id
                    /\ Len(SelectSeq(calls', LAMBDA c : c.call = "showMessage"))
                          = Len(MarkedIds(calls'))]_vars

\* A poll tick has succeeded with such a message in the store, and fetched
\* nothing.
C28_Witness ==
    /\ handler = PollTick
    /\ QuerySucceeded(calls)
    /\ calls[1].rows = <<>>
    /\ \E id \in (SeqStart + 1)..MaxId : Skipped(id)

\* C29: with a group open or nothing selected yet, no contact is open and a
\* tick of either timer leaves the display as it is and reads no
\* conversation: a poll tick that succeeds still marks every fetched row
\* delivered, notifies it and moves the cursor to the largest id fetched; a
\* status tick makes no call at all.
C29_NoContactNoRerender ==
    [][(handler' \in {PollTick, StatusTick} /\ currentContact = "") =>
          /\ messageDisplay' = messageDisplay
          /\ CallsNamed("loadConversation")' = {}
          /\ CallsNamed("messenger_get_conversation")' = {}
          /\ CallsNamed("messenger_get_group_conversation")' = {}
          /\ handler' = StatusTick =>
                /\ calls' = <<>>
                /\ UNCHANGED <<store, lastCheckedMessageId, processed>>
          /\ (handler' = PollTick /\ QuerySucceeded(calls')) =>
                /\ MarkedIds(calls') = FetchedIds(calls')
                /\ Cardinality(CallsNamed("showMessage")') = Len(calls'[1].rows)
                /\ lastCheckedMessageId' =
                      MaxOf({lastCheckedMessageId}
                            \cup {FetchedIds(calls')[i] : i \in DOMAIN FetchedIds(calls')})]_vars

\* A poll tick has fetched a message while the group was on display.
C29_Witness ==
    /\ handler = PollTick
    /\ currentContactType = TYPE_GROUP
    /\ currentGroupId >= 0
    /\ QuerySucceeded(calls)
    /\ calls[1].rows # <<>>
    /\ Len(messageDisplay) > 1

\* C30: a tick of either timer, whenever it fires, with the add-recipients
\* dialog open or not, leaves currentContact, currentGroupId,
\* currentContactType and the additional recipients as they were; the
\* additional recipients hold neither the open contact nor the local
\* identity after it, and the target is a contact or a group, not both.
C30_TicksLeaveTarget ==
    [][handler' \in {PollTick, StatusTick} =>
          /\ UNCHANGED <<currentContact, currentGroupId, currentContactType,
                         additionalRecipients, dialog>>
          /\ C13_NeitherPrimaryNorSelf'
          /\ (currentContact' # "" =>
                 currentContactType' = TYPE_CONTACT /\ currentGroupId' = NoGroup)
          /\ (currentGroupId' >= 0 =>
                 currentContactType' = TYPE_GROUP /\ currentContact' = "")]_vars

\* A poll tick has fetched a message while the dialog was open on a
\* conversation that has an additional recipient.
C30_Witness ==
    /\ handler = PollTick
    /\ dialog.open
    /\ additionalRecipients # <<>>
    /\ QuerySucceeded(calls)
    /\ calls[1].rows # <<>>

====
